---- MODULE Spec2Model ----
(***************************************************************************)
(* Member reconciliation of the CHOPS dashboard (src/streamlit_app.py).    *)
(*                                                                         *)
(* A DataFrame is a sequence of rows; a row is a record.  Three markers     *)
(* stand for the three ways a cell can hold nothing:                        *)
(*   NaN       the pandas missing value (json_normalize / merge / concat),  *)
(*   None      an explicit Python None,                                     *)
(*   NoColumn  the frame has no such column at all.                         *)
(* Numeric cells are records [kind, n] so that a number, NaN and NoColumn   *)
(* stay comparable.  Time is counted in abstract units, Day units a day.    *)
(***************************************************************************)
EXTENDS Integers, Sequences, FiniteSets, TLC

VARIABLES
    store,        \* the Firestore collections the script reads
    colCache,     \* st.cache_data entries of load_col, one per path
    allCache,     \* st.cache_data entry of load_all
    auth,         \* st.session_state.auth, per browser session
    fbInit,       \* firebase_admin._apps is non-empty
    data,         \* module-level `data` of the current script run
    table,        \* module-level `members_df` of the current script run
    runStatus,    \* how the last script run ended
    now,          \* the wall clock
    builtAt,      \* clock value read by the last build_members_df body
    runs,         \* script runs started so far
    bodyRuns,     \* executions of the body of build_members_df so far
    dirty,        \* "clean" | "mutated" | "observed": admin mutation vs. runs
    tiePolicy,    \* order the unstable sort leaves equal keys in
    secrets,      \* st.secrets: the deployment's secrets file
    gate          \* session and text_input value of the last script run

vars == <<store, colCache, allCache, auth, fbInit, data, table, runStatus,
          now, builtAt, runs, bodyRuns, dirty, tiePolicy, secrets, gate>>

-----------------------------------------------------------------------------
(* Bounds *)
MaxPurchases == 2      \* purchases drawn for the join inputs
MaxChildren == 1       \* child rows drawn for the join inputs
MaxTime == 10          \* largest clock / end-date value of the session inputs
MaxClock == 2          \* largest clock value of the script-run specification
MaxRuns == 3           \* script runs of the script-run specification
Day == 2               \* clock units per day

-----------------------------------------------------------------------------
(* Cell markers *)
NaN == "NaN"
None == "None"
NoColumn == "<no column>"

NumV(n) == [kind |-> "num", n |-> n]
NumNaN == [kind |-> "nan", n |-> 0]
NumNoColumn == [kind |-> "nocol", n |-> 0]

(* Identifiers: arbitrary non-empty strings, some holding the "_" separator *)
Ids == {"a", "a_a"}
SessionIds == {"s1", "s2"}

(* createdAt of a purchase document: a map with _seconds, an ISO string, or *)
(* nothing.                                                                 *)
CreatedSeconds(t) == [rep |-> "seconds", t |-> t]
CreatedIso(t) == [rep |-> "iso", t |-> t]
CreatedNone == [rep |-> "none", t |-> 0]

(* endDate of a session document *)
EndAt(t) == [kind |-> "ts", t |-> t]
(* a date-time without offset, e.g. stored as the string "2025-01-10T00:00:00" *)
EndNaive(t) == [kind |-> "naive", t |-> t]
EndAbsent == [kind |-> "absent", t |-> 0]
EndBad == [kind |-> "bad", t |-> 0]

-----------------------------------------------------------------------------
(* signed_url *)
DEFAULT_AVATAR ==
    "https://firebasestorage.googleapis.com/v0/b/chops-app-9b80c.appspot.com/o/profile_picture%2Favatar-defaut-chops.jpg?alt=media"
SIGNED_EXPIRATION == 3600

(* A field that a document does not carry *)
Absent == "<absent>"

HttpRefs == {"http://x/y", "https://x/y"}
PathRefs == {"avatars/a.png", "/avatars/a.png"}
(* A relative path whose name begins with the letters http, and an absolute
   URL of another scheme *)
OtherRefs == {"httpdocs/a.png", "gs://b/a.png"}
ImageRefs == {None, "", Absent} \cup HttpRefs \cup PathRefs \cup OtherRefs

(* str.startswith *)
StartsWith(s, prefix) ==
    Len(s) >= Len(prefix) /\ SubSeq(s, 1, Len(prefix)) = prefix

(* str.lstrip("/") *)
RECURSIVE LStrip(_)
LStrip(s) == IF s # "" /\ Head(s) = "/" THEN LStrip(Tail(s)) ELSE s

(* `not path`: None and "" are falsy, a float NaN is truthy *)
Falsy(path) == path = None \/ path = ""

StartsWithHttp(path) == StartsWith(path, "http")

(* NaN is a float: it passes `not path` and has no startswith *)
SignedUrlRaises(path) == path = NaN

SignedUrl(path) ==
    IF Falsy(path) THEN DEFAULT_AVATAR
    ELSE IF StartsWithHttp(path) THEN path
    ELSE "signed:" \o LStrip(path) \o "?expiration=" \o ToString(SIGNED_EXPIRATION)

-----------------------------------------------------------------------------
(* Latest-purchase selection: sort_values + drop_duplicates *)

HasSecondsColumn(purchases) ==
    \E i \in 1..Len(purchases) : purchases[i].createdAt.rep = "seconds"

SecondsOf(p) == p.createdAt.t

IsNaSeconds(p) == p.createdAt.rep # "seconds"

(* Equal keys ordered differently from one execution to the next *)
TieBeforeByExecution(i, j, policy) ==
    IF bodyRuns % 2 = 0 THEN i <= j ELSE i >= j

(* Whether row i goes before row j among rows with equal keys: the sort is  *)
(* kind="quicksort", which is not stable.                                   *)
TieBefore(i, j, policy) ==
    IF policy = "stable" THEN i <= j ELSE i >= j

RECURSIVE SortedIdx(_, _, _)
SortedIdx(purchases, S, policy) ==
    IF S = {} THEN <<>>
    ELSE LET best == CHOOSE i \in S : \A j \in S :
                        \/ SecondsOf(purchases[i]) > SecondsOf(purchases[j])
                        \/ /\ SecondsOf(purchases[i]) = SecondsOf(purchases[j])
                           /\ TieBefore(i, j, policy)
         IN <<best>> \o SortedIdx(purchases, S \ {best}, policy)

RECURSIVE IdxSeq(_, _)
IdxSeq(S, n) ==
    IF n = 0 THEN <<>>
    ELSE IdxSeq(S, n - 1) \o (IF n \in S THEN <<n>> ELSE <<>>)

(* purchases.sort_values("createdAt._seconds", ascending=False): rows with  *)
(* a value in descending order, rows with NaN last in their original order. *)
SortValuesDesc(purchases, policy) ==
    LET n == Len(purchases)
        valued == {i \in 1..n : ~IsNaSeconds(purchases[i])}
        order == SortedIdx(purchases, valued, policy)
                     \o IdxSeq((1..n) \ valued, n)
    IN [k \in 1..n |-> purchases[order[k]]]

FillNaEmpty(v) == IF v = NaN \/ v = None THEN "" ELSE v

PurchaseKey(p) == p.userId \o "_" \o FillNaEmpty(p.childId)

MemberKey(m) == m.parentUid \o "_" \o (IF m.type = "child" THEN m.id ELSE "")

(* drop_duplicates("_k"): keep the first row of each key *)
DropDuplicates(purchases) ==
    LET keep == {i \in 1..Len(purchases) :
                    \A j \in 1..(i - 1) :
                        PurchaseKey(purchases[j]) # PurchaseKey(purchases[i])}
    IN LET order == IdxSeq(keep, Len(purchases))
       IN [k \in 1..Len(order) |-> purchases[order[k]]]

Firsts(purchases, policy) ==
    DropDuplicates(IF HasSecondsColumn(purchases)
                   THEN SortValuesDesc(purchases, policy)
                   ELSE purchases)

-----------------------------------------------------------------------------
(* Union of parents and children *)

ParentRow(u) ==
    [id |-> u.id, type |-> "parent", parentUid |-> u.id,
     image_url |-> u.image_url, isStudentPending |-> u.isStudentPending]

ChildRow(c) ==
    [id |-> c.childId, type |-> "child", parentUid |-> c.parentUid,
     image_url |-> c.photoUrl, isStudentPending |-> None]

(* json_normalize gives a column to a field that some document carries and
   NaN in it to the documents that lack it *)
HasImageColumn(docs, field) ==
    \E i \in 1..Len(docs) : docs[i][field] # Absent

(* image_url of the rows of one frame before the concat: the loop of lines
   206-208 gives the children every column of users they lack, as None *)
ImageCell(v, hasColumn, filled) ==
    IF v # Absent THEN v
    ELSE IF hasColumn THEN NaN
    ELSE IF filled THEN None
    ELSE NoColumn

(* pd.concat: a column of one frame only is NaN in the rows of the other *)
ConcatCell(v, anyColumn) == IF v = NoColumn /\ anyColumn THEN NaN ELSE v

Concat(users, children) ==
    LET usersHave == HasImageColumn(users, "image_url")
        childrenHave == HasImageColumn(children, "photoUrl")
        anyColumn == usersHave \/ childrenHave
        parents == [i \in 1..Len(users) |->
                       [ParentRow(users[i]) EXCEPT
                           !.image_url = ImageCell(@, usersHave, FALSE)]]
        kids == [i \in 1..Len(children) |->
                    [ChildRow(children[i]) EXCEPT
                        !.image_url = ImageCell(@, childrenHave, usersHave)]]
        rows == parents \o kids
    IN [i \in 1..Len(rows) |->
           [rows[i] EXCEPT !.image_url = ConcatCell(@, anyColumn)]]

-----------------------------------------------------------------------------
(* Left merge on _k *)

PurchaseCols(p) ==
    [id_p |-> p.id, userId |-> p.userId, childId |-> p.childId,
     status |-> p.status, finalAmount |-> NumV(p.finalAmount),
     membershipId |-> p.membershipId, sessionId |-> p.sessionId]

NaNPurchaseCols ==
    [id_p |-> NaN, userId |-> NaN, childId |-> NaN, status |-> NaN,
     finalAmount |-> NumNaN, membershipId |-> NaN, sessionId |-> NaN]

NoPurchaseCols ==
    [id_p |-> NoColumn, userId |-> NoColumn, childId |-> NoColumn,
     status |-> NoColumn, finalAmount |-> NumNoColumn,
     membershipId |-> NoColumn, sessionId |-> NoColumn]

MatchesOf(m, firsts) ==
    {i \in 1..Len(firsts) : PurchaseKey(firsts[i]) = MemberKey(m)}

(* The rows a left merge emits for one member: one per matching right row,  *)
(* or one NaN-filled row when nothing matches.                              *)
MergeOne(m, firsts) ==
    LET hits == IdxSeq(MatchesOf(m, firsts), Len(firsts))
    IN IF hits = <<>> THEN <<[person |-> m, pur |-> NaNPurchaseCols]>>
       ELSE [k \in 1..Len(hits) |->
                [person |-> m, pur |-> PurchaseCols(firsts[hits[k]])]]

RECURSIVE MergeLeft(_, _)
MergeLeft(members, firsts) ==
    IF members = <<>> THEN <<>>
    ELSE MergeOne(Head(members), firsts) \o MergeLeft(Tail(members), firsts)

Joined(members, purchases, policy) ==
    IF purchases # <<>>
    THEN MergeLeft(members, Firsts(purchases, policy))
    ELSE [i \in 1..Len(members) |->
             [person |-> members[i], pur |-> NoPurchaseCols]]

-----------------------------------------------------------------------------
(* Session enrichment *)

SessionOf(sessions, sid) ==
    {i \in 1..Len(sessions) : sessions[i].id = sid}

HasEndDateColumn(sessions) ==
    \E i \in 1..Len(sessions) : sessions[i].endDate.kind # "absent"

(* members["sessionId"].map(sessions[col]) *)
MapEndDate(sessions, sid) ==
    IF SessionOf(sessions, sid) = {} THEN EndAbsent
    ELSE sessions[CHOOSE i \in SessionOf(sessions, sid) : TRUE].endDate

MapName(sessions, sid) ==
    IF SessionOf(sessions, sid) = {} THEN NaN
    ELSE sessions[CHOOSE i \in SessionOf(sessions, sid) : TRUE].name

(* pd.to_datetime(..., errors="coerce", utc=True): NaT for what it cannot   *)
(* parse.                                                                   *)
IsNaT(e) == e.kind \notin {"ts", "naive"}

(* utc=True: an aware value is converted to UTC, a naive one is taken to be
   UTC as it stands *)
ToDatetimeUtc(e) == e.t

(* Days of a difference truncated toward zero instead of floored *)
TruncatedDays(delta) ==
    IF delta < 0 THEN 0 - ((0 - delta) \div Day) ELSE delta \div Day

(* Timedelta.days *)
TimedeltaDays(delta) == delta \div Day

DaysLeft(e, today) ==
    IF IsNaT(e) THEN NumNaN ELSE NumV(TimedeltaDays(ToDatetimeUtc(e) - today))

-----------------------------------------------------------------------------
(* build_members_df *)

Raised(err) == [raised |-> TRUE, err |-> err, rows |-> <<>>]
Returned(rows) == [raised |-> FALSE, err |-> "", rows |-> rows]
NoTable == [raised |-> FALSE, err |-> "not built", rows |-> <<>>]

MemberRow(j, sessions, withSession, today) ==
    [id |-> j.person.id, type |-> j.person.type,
     parentUid |-> j.person.parentUid, image_url |-> j.person.image_url,
     isStudentPending |-> j.person.isStudentPending,
     avatar |-> SignedUrl(j.person.image_url),
     id_p |-> j.pur.id_p, userId |-> j.pur.userId, childId |-> j.pur.childId,
     status |-> j.pur.status, finalAmount |-> j.pur.finalAmount,
     membershipId |-> j.pur.membershipId, sessionId |-> j.pur.sessionId,
     days_left |-> IF withSession
                   THEN DaysLeft(MapEndDate(sessions, j.pur.sessionId), today)
                   ELSE NumNoColumn,
     session_name |-> IF withSession
                      THEN MapName(sessions, j.pur.sessionId)
                      ELSE NoColumn]

BuildMembersDf(d, today, policy) ==
    IF d.sessions = <<>> THEN Raised("KeyError: id (sessions.set_index)")
    ELSE IF d.users = <<>> THEN Raised("KeyError: id (users)")
    ELSE
      LET joined == Joined(Concat(d.users, d.children), d.purchases, policy)
          withSession == d.purchases # <<>>
      IN IF \E i \in 1..Len(joined) : joined[i].person.image_url = NoColumn
         THEN Raised("KeyError: image_url")
         ELSE IF \E i \in 1..Len(joined) :
                SignedUrlRaises(joined[i].person.image_url)
         THEN Raised("AttributeError: startswith (signed_url)")
         ELSE IF withSession /\ ~HasEndDateColumn(d.sessions)
         THEN Raised("KeyError: endDate")
         ELSE Returned([i \in 1..Len(joined) |->
                  MemberRow(joined[i], d.sessions, withSession, today)])

-----------------------------------------------------------------------------
(* Documents of the store *)

UserDoc(id, img, pending) ==
    [id |-> id, image_url |-> img, isStudentPending |-> pending]

ChildDoc(childId, parentUid, img) ==
    [childId |-> childId, parentUid |-> parentUid, photoUrl |-> img]

PurchaseDoc(id, userId, childId, createdAt, status, sessionId) ==
    [id |-> id, userId |-> userId, childId |-> childId,
     createdAt |-> createdAt, status |-> status,
     finalAmount |-> 0, membershipId |-> "m1", sessionId |-> sessionId]

SessionDoc(id, endDate) == [id |-> id, name |-> "name " \o id, endDate |-> endDate]

LevelDoc(id) == [id |-> id]

PurchaseIds == <<"p1", "p2", "p3", "p4">>

(* Sequences of length n over S *)
SeqsOfLen(S, n) == [1..n -> S]

SeqsUpTo(S, n) == UNION {SeqsOfLen(S, k) : k \in 0..n}

Distinct(s) == \A i, j \in 1..Len(s) : i # j => s[i] # s[j]

-----------------------------------------------------------------------------
(* Inputs of the join: two parents whose ids concatenate ambiguously,     *)
(* children under either of them, purchases with parent-level and         *)
(* child-level keys; a collection stores createdAt in one representation. *)

Stamps == {1, 2}

CreatedAts(rep) ==
    {CreatedNone} \cup
    {IF rep = "seconds" THEN CreatedSeconds(t) ELSE CreatedIso(t) : t \in Stamps}

JoinUsers == {<<UserDoc("a", None, "False"), UserDoc("a_a", None, "False")>>}

PosIn(users, uid) == CHOOSE i \in 1..Len(users) : users[i].id = uid

(* load_children: one stream per parent, in the order of users["id"] *)
ChildrenOf(users, n) ==
    LET uids == {users[i].id : i \in 1..Len(users)}
        docs == {ChildDoc(c, u, None) : c \in Ids, u \in uids}
    IN {s \in SeqsUpTo(docs, n) :
           /\ Distinct(s)
           /\ \A i, j \in 1..Len(s) :
                 i < j => PosIn(users, s[i].parentUid) <= PosIn(users, s[j].parentUid)}

(* Pair keys of the purchases: a parent-level one, a child-level one, and
   one whose concatenation equals that of another pair *)
PurchasePairs ==
    {<<"a", NaN>>, <<"a", "a_a">>, <<"a_a", "a">>}

PurchaseShapes(rep) ==
    {[userId |-> k[1], childId |-> k[2], createdAt |-> c] :
        k \in PurchasePairs, c \in CreatedAts(rep)}

JoinPurchases(n) ==
    UNION {{[i \in 1..Len(sh) |->
                PurchaseDoc(PurchaseIds[i], sh[i].userId, sh[i].childId,
                            sh[i].createdAt, "pending", "s1")] :
              sh \in SeqsUpTo(PurchaseShapes(rep), n)} : rep \in {"seconds", "iso"}}

JoinData(maxPurchases, maxChildren) ==
    UNION {{[users |-> u, children |-> c, purchases |-> p,
             sessions |-> <<SessionDoc("s1", EndAt(2))>>,
             levels |-> <<LevelDoc("l1")>>] :
               c \in ChildrenOf(u, maxChildren),
               p \in JoinPurchases(maxPurchases)} : u \in JoinUsers}

-----------------------------------------------------------------------------
(* Inputs of the session enrichment: one parent with one child, at most one *)
(* purchase, any session set with any end date, any clock value.            *)

EndDates(maxTime) ==
    {EndAbsent, EndBad} \cup {EndAt(t) : t \in 0..maxTime}
                        \cup {EndNaive(t) : t \in 0..maxTime}

SessionSets(maxTime) ==
    {[i \in 1..n |-> SessionDoc(IF i = 1 THEN "s1" ELSE "s2", e[i])] :
        n \in 0..2, e \in [1..2 -> EndDates(maxTime)]}

SessionPurchases ==
    {<<>>} \cup
    {<<PurchaseDoc("p1", "a", c, CreatedSeconds(1), "paid", sid)>> :
        c \in {NaN, "a_a"}, sid \in SessionIds \cup {NaN}}

SessionData(maxTime) ==
    {[users |-> <<UserDoc("a", None, "False")>>,
      children |-> <<ChildDoc("a_a", "a", None)>>,
      purchases |-> p, sessions |-> s, levels |-> <<LevelDoc("l1")>>] :
        p \in SessionPurchases, s \in SessionSets(maxTime)}

-----------------------------------------------------------------------------
(* State outside the script runs, shared by the specifications below *)

UiSessions == {"u1", "u2"}

(* The dashboard_pwd of a secrets file that sets one *)
DASHBOARD_PWD == "secret"

EmptyData ==
    [users |-> <<>>, children |-> <<>>, purchases |-> <<>>,
     sessions |-> <<>>, levels |-> <<>>]

Miss == [hit |-> FALSE, df |-> <<>>]
Hit(df) == [hit |-> TRUE, df |-> df]

AllMiss == [hit |-> FALSE, data |-> EmptyData]
AllHit(d) == [hit |-> TRUE, data |-> d]

NoColCache ==
    [users |-> Miss, purchases |-> Miss, sessionConfigs |-> Miss, levels |-> Miss]

(* No script run yet *)
NoGate == [u |-> "none", pwd |-> None]

InitCommon ==
    /\ colCache = NoColCache
    /\ allCache = AllMiss
    /\ auth = [u \in UiSessions |-> FALSE]
    /\ fbInit = FALSE
    /\ table = NoTable
    /\ runStatus = "none"
    /\ builtAt = 0
    /\ runs = 0
    /\ bodyRuns = 0
    /\ dirty = "clean"
    /\ gate = NoGate

(* One call of build_members_df on a loaded `data` *)
BuildStep ==
    /\ runStatus = "none"
    /\ bodyRuns' = bodyRuns + 1
    /\ builtAt' = now
    /\ table' = BuildMembersDf(data, now, tiePolicy)
    /\ runStatus' = IF table'.raised THEN "raised" ELSE "ok"
    /\ UNCHANGED <<store, colCache, allCache, auth, fbInit, data, now, runs,
                   dirty, tiePolicy,
                   secrets, gate>>

InitJoin ==
    /\ InitCommon
    /\ secrets = [dashboard_pwd |-> DASHBOARD_PWD]
    /\ data \in JoinData(MaxPurchases, MaxChildren)
    /\ store = data
    /\ now = 0
    /\ tiePolicy \in {"stable", "reverse"}

SpecJoin == InitJoin /\ [][BuildStep]_vars

InitSessions ==
    /\ InitCommon
    /\ secrets = [dashboard_pwd |-> DASHBOARD_PWD]
    /\ data \in SessionData(MaxTime)
    /\ store = data
    /\ now \in 0..MaxTime
    /\ tiePolicy = "stable"

SpecSessions == InitSessions /\ [][BuildStep]_vars

(* Inputs of the asset resolution: two parents and at most one child, each
   with any image reference, or with none in the document *)
AssetChildren ==
    {<<>>} \cup {<<ChildDoc("a_a", "a", z)>> : z \in ImageRefs}

AssetData ==
    {[users |-> <<UserDoc("a", x, "False"), UserDoc("a_a", y, "False")>>,
      children |-> c,
      purchases |-> <<PurchaseDoc("p1", "a", NaN, CreatedSeconds(1), "paid", "s1")>>,
      sessions |-> <<SessionDoc("s1", EndAt(2))>>,
      levels |-> <<LevelDoc("l1")>>] :
        x \in ImageRefs, y \in ImageRefs, c \in AssetChildren}

InitAssets ==
    /\ InitCommon
    /\ secrets = [dashboard_pwd |-> DASHBOARD_PWD]
    /\ data \in AssetData
    /\ store = data
    /\ now = 0
    /\ tiePolicy = "stable"

SpecAssets == InitAssets /\ [][BuildStep]_vars

-----------------------------------------------------------------------------
(* Script runs: authentication, load_all behind st.cache_data, the member  *)
(* table, and the administrative actions of the presentation layer.         *)

Passwords == {"", DASHBOARD_PWD}

(* st.secrets.get(key, default) *)
SecretsGet(key, default) ==
    IF secrets[key] = Absent THEN default ELSE secrets[key]

(* The comparison of line 114 *)
PasswordMatches(pwd) == pwd = SecretsGet("dashboard_pwd", "")

(* The reads of load_all, in the order of its statements *)
StepPath ==
    <<"users", "children", "purchases", "sessionConfigs", "levels",
      "trainings", "exceedances", "inscriptions", "participations">>

NumSteps == Len(StepPath)

CachedPaths == {"users", "purchases", "sessionConfigs", "levels"}

StepOf(path) == CHOOSE k \in 1..NumSteps : StepPath[k] = path

StoreCol(st, path) ==
    IF path = "sessionConfigs" THEN st.sessions ELSE st[path]

(* load_col behind st.cache_data: the cached frame on a hit, the store's
   collection on a miss *)
LoadCol(path, cache, st) ==
    IF cache[path].hit THEN cache[path].df ELSE StoreCol(st, path)

(* load_children: the children of the parents of users_df *)
LoadChildren(st, users) ==
    SelectSeq(st.children,
              LAMBDA c : \E i \in 1..Len(users) : users[i].id = c.parentUid)

(* users_df["id"] and levels["id"] raise KeyError on a frame without columns *)
StepRaises(k, cache, st) ==
    \/ k = 2 /\ LoadCol("users", cache, st) = <<>>
    \/ k = 6 /\ LoadCol("levels", cache, st) = <<>>

(* Whether step k goes to the store, where the read can fail *)
StepReads(k, cache, st) ==
    IF StepPath[k] \in CachedPaths THEN ~cache[StepPath[k]].hit
    ELSE IF k = 6 THEN LoadCol("levels", cache, st) # <<>>
    ELSE LoadCol("users", cache, st) # <<>>

KeyErrorStep(cache, st) ==
    IF \E k \in 1..NumSteps : StepRaises(k, cache, st)
    THEN CHOOSE k \in 1..NumSteps :
            /\ StepRaises(k, cache, st)
            /\ \A j \in 1..(k - 1) : ~StepRaises(j, cache, st)
    ELSE 0

(* The step load_all stops at: the read that fails, else the KeyError, else
   0 when it runs to its return *)
FailStep(failAt, cache, st) ==
    IF failAt # 0 THEN failAt ELSE KeyErrorStep(cache, st)

CanFailAt(failAt, cache, st) ==
    \/ failAt = 0
    \/ /\ failAt \in 1..NumSteps
       /\ StepReads(failAt, cache, st)
       /\ KeyErrorStep(cache, st) \in {0} \cup (failAt + 1)..NumSteps

(* load_col entries after load_all stopped at step stop (0: did not stop) *)
ColCacheAfter(stop, cache, st) ==
    [path \in CachedPaths |->
        IF stop = 0 \/ StepOf(path) < stop
        THEN Hit(LoadCol(path, cache, st))
        ELSE cache[path]]

(* The dict load_all returns *)
LoadedData(cache, st) ==
    [users |-> LoadCol("users", cache, st),
     children |-> LoadChildren(st, LoadCol("users", cache, st)),
     purchases |-> LoadCol("purchases", cache, st),
     sessions |-> LoadCol("sessionConfigs", cache, st),
     levels |-> LoadCol("levels", cache, st)]

(* Whether the call of line 236 finds a result in the lru_cache: the
   decorator of line 185 runs again in every script run and makes a new,
   empty cache. *)
LruHitAtCall == FALSE

(* The run stops at the password prompt *)
StopAtPassword(u, pwd) ==
    /\ ~auth[u]
    /\ ~PasswordMatches(pwd)
    /\ runStatus' = "stopped"
    /\ data' = EmptyData
    /\ table' = NoTable
    /\ UNCHANGED <<store, colCache, allCache, auth, fbInit, now, builtAt,
                   bodyRuns, dirty, tiePolicy, secrets>>

(* load_all raises: the run ends with the exception *)
LoadFails(u, stop) ==
    /\ auth' = [auth EXCEPT ![u] = TRUE]
    /\ fbInit' = TRUE
    /\ colCache' = ColCacheAfter(stop, colCache, store)
    /\ runStatus' = "failed"
    /\ data' = EmptyData
    /\ table' = NoTable
    /\ UNCHANGED <<store, allCache, now, builtAt, bodyRuns, dirty, tiePolicy, secrets>>

(* load_all returns, from its cache entry or from its reads, and
   build_members_df is called *)
LoadAndBuild(u) ==
    /\ auth' = [auth EXCEPT ![u] = TRUE]
    /\ fbInit' = TRUE
    /\ IF allCache.hit
       THEN /\ data' = allCache.data
            /\ UNCHANGED <<colCache, allCache>>
       ELSE /\ data' = LoadedData(colCache, store)
            /\ colCache' = ColCacheAfter(0, colCache, store)
            /\ allCache' = AllHit(data')
    /\ IF LruHitAtCall
       THEN UNCHANGED <<table, runStatus, bodyRuns, builtAt>>
       ELSE /\ bodyRuns' = bodyRuns + 1
            /\ builtAt' = now
            /\ table' = BuildMembersDf(data', now, tiePolicy)
            /\ runStatus' = IF table'.raised THEN "raised" ELSE "ok"
    /\ dirty' = IF dirty = "mutated" THEN "observed" ELSE dirty
    /\ UNCHANGED <<store, now, tiePolicy, secrets>>

(* One execution of the script for browser session u *)
ScriptRun(u, pwd, failAt) ==
    /\ runs < MaxRuns
    /\ runs' = runs + 1
    /\ gate' = [u |-> u, pwd |-> IF auth[u] THEN None ELSE pwd]
    /\ IF ~auth[u] /\ ~PasswordMatches(pwd)
       THEN failAt = 0 /\ StopAtPassword(u, pwd)
       ELSE IF allCache.hit
       THEN failAt = 0 /\ LoadAndBuild(u)
       ELSE /\ CanFailAt(failAt, colCache, store)
            /\ IF FailStep(failAt, colCache, store) # 0
               THEN LoadFails(u, FailStep(failAt, colCache, store))
               ELSE LoadAndBuild(u)

(* Invalidation that clears load_all's entry and keeps load_col's *)
KeptColCache(cache) == cache

(* Cache invalidation of an administrative action *)
InvalidatedColCache(cache) == NoColCache

InvalidatedAllCache(cache) == AllMiss

(* markPurchasePaid *)
MarkPurchasePaid(u, i) ==
    /\ auth[u]
    /\ runStatus = "ok"
    /\ i \in 1..Len(store.purchases)
    /\ store' = [store EXCEPT !.purchases[i].status = "paid"]
    /\ colCache' = InvalidatedColCache(colCache)
    /\ allCache' = InvalidatedAllCache(allCache)
    /\ dirty' = "mutated"
    /\ UNCHANGED <<auth, fbInit, data, table, runStatus, now, builtAt, runs,
                   bodyRuns, tiePolicy,
                   secrets, gate>>

(* validateStudent *)
ValidateStudent(u, i) ==
    /\ auth[u]
    /\ runStatus = "ok"
    /\ i \in 1..Len(store.users)
    /\ store' = [store EXCEPT !.users[i].isStudentPending = "False"]
    /\ colCache' = InvalidatedColCache(colCache)
    /\ allCache' = InvalidatedAllCache(allCache)
    /\ dirty' = "mutated"
    /\ UNCHANGED <<auth, fbInit, data, table, runStatus, now, builtAt, runs,
                   bodyRuns, tiePolicy,
                   secrets, gate>>

(* The wall clock advances *)
Tick ==
    /\ now < MaxClock
    /\ now' = now + 1
    /\ UNCHANGED <<store, colCache, allCache, auth, fbInit, data, table,
                   runStatus, builtAt, runs, bodyRuns, dirty, tiePolicy,
                   secrets, gate>>

BaseStore ==
    [users |-> <<UserDoc("a", "avatars/a.png", "True")>>,
     children |-> <<ChildDoc("a_a", "a", "http://x/y")>>,
     purchases |-> <<PurchaseDoc("p1", "a", NaN, CreatedSeconds(1), "pending", "s1"),
                     PurchaseDoc("p2", "a", "a_a", CreatedIso(1), "pending", NaN)>>,
     sessions |-> <<SessionDoc("s1", EndAt(2))>>,
     levels |-> <<LevelDoc("l1")>>]

InitialStores ==
    {BaseStore,
     [BaseStore EXCEPT !.purchases = <<>>],
     [BaseStore EXCEPT !.purchases =
         <<PurchaseDoc("p1", "a", NaN, CreatedSeconds(1), "pending", "s1"),
           PurchaseDoc("p2", "a", NaN, CreatedSeconds(1), "paid", NaN)>>],
     [BaseStore EXCEPT !.sessions = <<>>],
     [BaseStore EXCEPT !.levels = <<>>],
     [BaseStore EXCEPT !.users = <<>>, !.children = <<>>]}

(* A secrets file with the dashboard password, and one without that key *)
SecretsFiles ==
    {[dashboard_pwd |-> DASHBOARD_PWD], [dashboard_pwd |-> Absent]}

Init ==
    /\ InitCommon
    /\ secrets \in SecretsFiles
    /\ store \in InitialStores
    /\ data = EmptyData
    /\ now = 0
    /\ tiePolicy \in {"stable", "reverse"}

Next ==
    \/ \E u \in UiSessions, pwd \in Passwords, failAt \in 0..NumSteps :
          ScriptRun(u, pwd, failAt)
    \/ \E u \in UiSessions, i \in 1..Len(store.purchases) :
          MarkPurchasePaid(u, i)
    \/ \E u \in UiSessions, i \in 1..Len(store.users) : ValidateStudent(u, i)
    \/ Tick

Spec == Init /\ [][Next]_vars

-----------------------------------------------------------------------------
(* Vocabulary of the properties *)

Built == runStatus \in {"ok", "raised"}

Rows == table.rows

Persons == Concat(data.users, data.children)

(* The pair key of the specification: (owning parent, child id or "") *)
PersonPair(m) == <<m.parentUid, IF m.type = "child" THEN m.id ELSE "">>

PurchasePair(p) == <<p.userId, FillNaEmpty(p.childId)>>

Partition(pair) ==
    {i \in 1..Len(data.purchases) : PurchasePair(data.purchases[i]) = pair}

(* Normalized creation timestamp, whatever its stored representation *)
StampOf(p) == IF p.createdAt.rep = "none" THEN -1 ELSE p.createdAt.t

LatestOf(part) ==
    {data.purchases[i].id : i \in {k \in part : \A j \in part :
        StampOf(data.purchases[k]) >= StampOf(data.purchases[j])}}

Attached(r) == r.id_p # NaN /\ r.id_p # NoColumn

(* C1: for every pair key with more than one Purchase, the Purchase attached
   to the matching member row is one with the greatest creation timestamp of
   that partition, whatever the order of the purchases and whether the
   timestamps are stored as createdAt._seconds or as ISO strings. *)
C1_LatestPurchaseAttached ==
    runStatus = "ok" =>
        \A i \in 1..Len(Rows) :
            Cardinality(Partition(PersonPair(Rows[i]))) > 1
                => Rows[i].id_p \in LatestOf(Partition(PersonPair(Rows[i])))

(* C2: whenever a Purchase is attached to a member row, its userId is the
   member's owning parent and its childId-or-"" is the member's own id for a
   child and "" for a parent, for identifiers that may hold "_". *)
C2_JoinKeysDoNotCross ==
    runStatus = "ok" =>
        \A i \in 1..Len(Rows) :
            Attached(Rows[i])
                => <<Rows[i].userId, FillNaEmpty(Rows[i].childId)>>
                       = PersonPair(Rows[i])

(* C3: every Person row whose pair key matches no Purchase, the empty
   Purchase set included, carries status, amount, membershipId and sessionId,
   each holding the no-value marker. *)
C3_NoPurchaseFieldsAreNoValue ==
    runStatus = "ok" =>
        \A i \in 1..Len(Rows) :
            Partition(PersonPair(Rows[i])) = {}
                => /\ Rows[i].status = NaN
                   /\ Rows[i].finalAmount = NumNaN
                   /\ Rows[i].membershipId = NaN
                   /\ Rows[i].sessionId = NaN

(* C4: for every input, build_members_df returns exactly one row per Person:
   as many rows as Parent rows plus Child rows, the Persons in their order. *)
C4_OneRowPerPerson ==
    Built =>
        /\ ~table.raised
        /\ Len(Rows) = Len(data.users) + Len(data.children)
        /\ \A i \in 1..Len(Rows) :
              /\ Rows[i].id = Persons[i].id
              /\ Rows[i].type = Persons[i].type
              /\ Rows[i].parentUid = Persons[i].parentUid

(* The sessionId build_members_df attaches to the i-th Person *)
SessionIdOf(i) == Joined(Persons, data.purchases, tiePolicy)[i].pur.sessionId

(* No known end: sessionId absent, matching no Session, or a Session whose
   end date is absent or unparseable *)
UnknownEnd(sid) ==
    \/ sid \in {NaN, None, NoColumn}
    \/ SessionOf(data.sessions, sid) = {}
    \/ MapEndDate(data.sessions, sid).kind # "ts"

(* C8: build_members_df completes without raising, and the row's
   days-remaining field holds the unknown marker, for every member whose
   sessionId is absent, matches no Session (the empty Session set included),
   or matches a Session with no or an unparseable end date. *)
C8_UnknownDaysWithoutRaising ==
    Built =>
        \A i \in 1..Len(Persons) :
            UnknownEnd(SessionIdOf(i))
                => ~table.raised /\ Rows[i].days_left = NumNaN

(* C9: for every member whose sessionId matches a Session with a parseable
   end, days-remaining is floor((end - now) / one day): negative whenever
   end < now (end exactly 5 days before now gives -5), non-negative
   whenever end >= now. *)
C9_DaysLeftIsFloor ==
    runStatus = "ok" =>
        \A i \in 1..Len(Rows) :
            ~UnknownEnd(Rows[i].sessionId) =>
                LET end == MapEndDate(data.sessions, Rows[i].sessionId).t
                    d == Rows[i].days_left
                IN /\ d.kind = "num"
                   /\ d.n * Day <= end - builtAt
                   /\ end - builtAt < (d.n + 1) * Day
                   /\ (end < builtAt => d.n < 0)
                   /\ (end >= builtAt => d.n >= 0)
                   /\ (end - builtAt = -5 * Day => d.n = -5)

C9_Witness ==
    /\ runStatus = "ok"
    /\ \E i \in 1..Len(Rows) :
          /\ ~UnknownEnd(Rows[i].sessionId)
          /\ MapEndDate(data.sessions, Rows[i].sessionId).t - builtAt = -5 * Day
          /\ Rows[i].days_left = NumV(-5)

-----------------------------------------------------------------------------
(* Properties of the script runs *)

RunStep == runs' # runs

(* C5: over script runs with no invalidation between them, the body of
   build_members_df executes at most once. *)
C5_BodyExecutesAtMostOnce ==
    dirty = "clean" => bodyRuns <= 1

(* What load_all returns when every collection is read from the store now *)
FreshData == LoadedData(NoColCache, store)

(* C6: after an administrative action changed the store, the next
   reconciliation run returns the member table built from records read
   after the mutation. *)
C6_RunAfterMutationObservesStore ==
    [][(RunStep /\ dirty = "mutated" /\ runStatus' = "ok")
          => table' = BuildMembersDf(FreshData, now, tiePolicy)]_vars

C6_Witness ==
    /\ dirty = "observed"
    /\ runStatus = "ok"
    /\ \E i \in 1..Len(Rows) : Rows[i].status = "paid"
    /\ \E i \in 1..Len(store.purchases) : store.purchases[i].status = "paid"

(* C7: a run in which a read of load_all fails produces no member table and
   leaves no cache entry populated, neither load_all's nor any load_col's. *)
C7_FailedRunPopulatesNoCache ==
    [][(RunStep /\ runStatus' = "failed")
          => /\ table' = NoTable
             /\ allCache' = allCache
             /\ colCache' = colCache]_vars

(* C10 as stated: two executions of build_members_df over the same snapshot
   return identical tables, days-remaining and avatar included. *)
C10_IdenticalTables ==
    [][(RunStep /\ runStatus = "ok" /\ runStatus' = "ok" /\ data' = data)
          => table' = table]_vars

IsSigned(r) == r.avatar # DEFAULT_AVATAR /\ r.avatar # r.image_url

(* A row without what depends on the time of the execution *)
Timeless(r) ==
    [r EXCEPT !.days_left = NumNaN,
              !.avatar = IF IsSigned(r) THEN "signed" ELSE r.avatar]

TimelessRows(t) == [i \in 1..Len(t.rows) |-> Timeless(t.rows[i])]

(* C10 amended: two executions of build_members_df over the same snapshot
   return tables identical in every field other than days-remaining and the
   signed avatar URL, and identical in every field when both executions read
   the same clock value. *)
C10_IdenticalUpToClock ==
    [][(RunStep /\ runStatus = "ok" /\ runStatus' = "ok" /\ data' = data)
          => /\ TimelessRows(table') = TimelessRows(table)
             /\ (builtAt' = builtAt => table' = table)]_vars

C10_Witness ==
    /\ runStatus = "ok"
    /\ bodyRuns >= 2
    /\ dirty = "clean"
    /\ allCache.hit /\ allCache.data = data
    /\ builtAt > 0
    /\ \E i \in 1..Len(Rows) : Rows[i].days_left.kind = "num"

-----------------------------------------------------------------------------
(* Asset resolution *)

(* The references the union step can hold for "no image" *)
AbsentRef(ref) == ref \in {None, "", NaN}

(* A scheme is present: some text, then "://" *)
HasScheme(ref) ==
    \E i \in 2..(Len(ref) - 2) : SubSeq(ref, i, i + 2) = "://"

EndsWith(s, suffix) ==
    Len(s) >= Len(suffix) /\ SubSeq(s, Len(s) - Len(suffix) + 1, Len(s)) = suffix

SignedFor3600(url) ==
    StartsWith(url, "signed:") /\ EndsWith(url, "expiration=3600")

ResolvedByRule(ref, url) ==
    IF AbsentRef(ref) THEN url = DEFAULT_AVATAR
    ELSE IF HasScheme(ref) THEN url = ref
    ELSE SignedFor3600(url) /\ url # ref

(* C11: every member's image reference is resolved by the first rule that
   applies: an absent reference (None, "", or the missing-value marker of the
   union step) gives the default avatar, an absolute URL (scheme present) is
   returned unchanged, any other reference gives a signed URL of 3600 seconds
   that differs from it; no call of signed_url raises for an absent
   reference. *)
C11_AssetResolution ==
    runStatus # "none" =>
        /\ table.err # "AttributeError: startswith (signed_url)"
        /\ \A i \in 1..Len(Rows) :
              ResolvedByRule(Rows[i].image_url, Rows[i].avatar)

-----------------------------------------------------------------------------
(* Naive end timestamps *)

NaiveEnd(sid) == MapEndDate(data.sessions, sid).kind = "naive"

(* C12: when the end timestamp of a row's session is timezone-naive, the
   days-remaining computation raises; no table is returned in which such a
   row carries a day count. *)
C12_NaiveEndRaises ==
    runStatus = "ok" =>
        \A i \in 1..Len(Rows) : ~NaiveEnd(Rows[i].sessionId)

-----------------------------------------------------------------------------
(* Tie-break of the latest purchase *)

(* The purchases of a partition that share its greatest creation timestamp *)
TopOf(part) ==
    {k \in part : \A j \in part :
        StampOf(data.purchases[k]) >= StampOf(data.purchases[j])}

FirstFetched(S) == data.purchases[CHOOSE k \in S : \A j \in S : k <= j].id

(* C13: when several Purchases of one pair key share the greatest creation
   timestamp (equal values, or all absent), the Purchase attached to the
   member row of that key is the one of them that comes first in the fetch
   order of the purchases collection. *)
C13_TieKeepsFirstFetched ==
    runStatus = "ok" =>
        \A i \in 1..Len(Rows) :
            Cardinality(TopOf(Partition(PersonPair(Rows[i])))) > 1
                => Rows[i].id_p = FirstFetched(TopOf(Partition(PersonPair(Rows[i]))))

-----------------------------------------------------------------------------
(* Authentication gate *)

(* The run read the store, reconciled or went on to the pages *)
RanPastGate ==
    \/ runStatus' \in {"ok", "raised", "failed"}
    \/ data' # EmptyData
    \/ table' # NoTable
    \/ colCache' # colCache
    \/ allCache' # allCache

(* The password was typed and is the dashboard_pwd the secrets file sets *)
SubmittedConfiguredSecret ==
    /\ secrets.dashboard_pwd # Absent
    /\ gate'.pwd = secrets.dashboard_pwd

(* C14: a script run reads the store, reconciles or renders only when the
   flag of its session is set; a flag becomes set only in a run of that
   session whose submitted password equals the configured dashboard_pwd
   secret; a run with another password leaves the store client
   uninitialised; a flag that is set stays set. *)
C14_AuthGate ==
    [][/\ (RunStep /\ RanPastGate) => auth'[gate'.u]
       /\ \A u \in UiSessions :
             /\ (~auth[u] /\ auth'[u])
                   => RunStep /\ gate'.u = u /\ SubmittedConfiguredSecret
             /\ auth[u] => auth'[u]
       /\ (RunStep /\ ~auth[gate'.u] /\ ~SubmittedConfiguredSecret)
             => fbInit' = fbInit]_vars

====
